---- MODULE Spec2Model ----
(***************************************************************************)
(* robopal: the joint-space control environment (JntCtrlEnv) and the robot *)
(* data structure (BaseRobot).                                             *)
(*                                                                         *)
(* Units.  Times are whole numbers of ticks, joint positions, velocities   *)
(* and commands are whole numbers; int(a / b) of Python is the quotient    *)
(* truncated toward zero, which for positive a and b is a \div b.          *)
(* Python lists are sequences (index i of the code is i + 1 here), joint   *)
(* and actuator ids are the 0-based ids of the MuJoCo model.               *)
(***************************************************************************)
EXTENDS Integers, Sequences, FiniteSets, TLC

\* ------------------------------------------------------------ bounds
MaxCtl == 4      \* control_timestep ranges over 1..MaxCtl ticks
MaxAct == 1      \* every component of an action ranges over 0..MaxAct
QMax == 1        \* positions, velocities and torques saturate at +-QMax

\* ------------------------------------------------- the rig of the env
\* model_timestep is mj_model.opt.timestep, a datum of the model description
ModelTimesteps == {1, 2}
\* the tags a caller may pass as jnt_controller; "None" is Python's None and
\* "BOGUS" any string that is neither 'JNTIMP' nor 'JNTVEL'
Tags == {"JNTIMP", "JNTVEL", "None", "BOGUS"}
\* robot.single_arm.joint_index / actuator_index and robot.jnt_num
joint_index == <<0, 1>>
actuator_index == <<0, 1>>
jnt_num == Len(joint_index)
robot_dof == jnt_num
GripperActuator == 2
JointIds == {joint_index[k] : k \in 1..jnt_num}
ActuatorIds == {actuator_index[k] : k \in 1..jnt_num} \cup {GripperActuator}
GripperActions == {-1, 0, 1, 2}
GripClose == -40
GripOpen == 40

Vals == (-QMax)..QMax
Actions == [1..robot_dof -> 0..MaxAct]
zeros(n) == [k \in 1..n |-> 0]
Clamp(x) == IF x > QMax THEN QMax ELSE IF x < -QMax THEN -QMax ELSE x

VARIABLES
  env,               \* "unbuilt" | "ready" | "failed" (the constructor raised)
  jnt_controller,    \* the tag passed to the constructor
  name,              \* jnt_controller.name of the controller chosen
  is_interpolate,
  control_timestep,
  model_timestep,
  nsubsteps,
  warned,            \* logging.warning was called by the constructor
  qpos, qvel,        \* mj_data.qpos / qvel, by joint id
  ctrl,              \* mj_data.ctrl, by actuator id
  itp,               \* the controller's interpolator, or NoItp
  call,              \* the call in progress or last completed, with its arguments
  pc,                \* "idle" | "inner" | "advance": position inside step
  i,                 \* the loop variable of step
  nadv,              \* physics advances made by the current / last step
  q_des, qdot_target,\* what the last inner_step selected and handed on
  wlog,              \* the writes of the last inner_step, in order
  ilog               \* the step_interpolator calls of the current / last step:
                     \* the target of each and the advances made before it

VARIABLES
  xpos,              \* robot_data.xpos: the body frames mj_kinematics derived
  cdof,              \* robot_data.cdof / subtree_com: what mj_comPos derived
  kpc,               \* "idle" | "perturbed" | "rederived": position in get_jac_dot
  J, original_qpos, Jh,  \* the locals of get_jac_dot
  Jdot,              \* the value get_jac_dot returned last
  entry              \* qpos and qvel as they were when get_jac_dot was entered

VARIABLES
  arm_joint_names,   \* self._arm_joint_names: agent -> list of joint names
  arm_joint_indexes, \* self._arm_joint_indexes: agent -> list of joint ids
  mani_joint_bounds, \* agent -> <<lower bounds, upper bounds>>
  raised             \* the last assignment to arm_joint_names raised KeyError

kinvars == <<xpos, cdof, kpc, J, original_qpos, Jh, Jdot, entry>>
namevars == <<arm_joint_names, arm_joint_indexes, mani_joint_bounds, raised>>

envvars == <<env, jnt_controller, name, is_interpolate, control_timestep,
             model_timestep, nsubsteps, warned, qpos, qvel, ctrl, itp, call,
             pc, i, nadv, q_des, qdot_target, wlog, ilog>>

\* what an operation of one class leaves alone of the others
ctlvars == <<env, jnt_controller, name, is_interpolate, control_timestep,
             model_timestep, nsubsteps, warned, ctrl, itp, pc, i, nadv,
             q_des, qdot_target, wlog, ilog>>

NoItp == [present |-> FALSE]
NoCall == [op |-> "none"]

\* ------------------------------------------- controllers (robopal.controllers)
\* The controller classes are not part of the sources at hand; they are
\* modelled from the design document.
\* JntImpedance and JntNone receive is_interpolate, JntVelController does not
new_interpolator(tag, interp) ==
  IF interp /\ tag # "JNTVEL"
    THEN [present |-> TRUE, start_q |-> zeros(robot_dof),
          start_v |-> zeros(robot_dof), target |-> zeros(robot_dof)]
    ELSE NoItp

step_interpolator(it, action) ==
  IF it.present THEN [it EXCEPT !.target = action] ELSE it

reset_interpolator(it, q, v) ==
  IF it.present THEN [it EXCEPT !.start_q = q, !.start_v = v, !.target = q] ELSE it

\* the setpoint the controller tracks: the interpolator's target when it owns one
setpoint(it, q) == IF it.present THEN it.target ELSE q

compute_jnt_pos(it, q) == setpoint(it, q)

compute_jnt_torque(it, nm, q, v, q_cur, v_cur) ==
  IF nm = "JNTVEL"
    THEN [k \in 1..jnt_num |-> Clamp(v[k] - v_cur[k])]
    ELSE [k \in 1..jnt_num |->
            Clamp((setpoint(it, q)[k] - q_cur[k]) + (v[k] - v_cur[k]))]

\* robot.single_arm.arm_qpos / arm_qvel: the arm's joints gathered in list order
arm_qpos(qp) == [k \in 1..jnt_num |-> qp[joint_index[k]]]
arm_qvel(qv) == [k \in 1..jnt_num |-> qv[joint_index[k]]]

\* --------------------------------------------------- MujocoEnv (envs/base.py)
init_qpos == [j \in JointIds |-> IF j = 0 THEN 1 ELSE 0]
ZeroJ == [j \in JointIds |-> 0]
ZeroA == [a \in ActuatorIds |-> 0]

\* one advance of the engine's integrator by model_timestep; the arm's
\* actuator k drives the arm's joint k
mj_step_qvel(dyn, qv, c) ==
  IF dyn
    THEN [j \in JointIds |->
            LET k == CHOOSE n \in 1..jnt_num : joint_index[n] = j
            IN  Clamp(qv[j] + c[actuator_index[k]])]
    ELSE qv
mj_step_qpos(dyn, qp, qv1) ==
  IF dyn THEN [j \in JointIds |-> Clamp(qp[j] + qv1[j])] ELSE qp

\* ------------------------------------------------------------- JntCtrlEnv
\* int(self.control_timestep / self.model_timestep)
compute_nsubsteps(c, m) == c \div m

PhysInit ==
  /\ qpos = init_qpos
  /\ qvel = ZeroJ

EnvInit ==
  /\ env = "unbuilt"
  /\ jnt_controller = "None"
  /\ name = "unset"
  /\ is_interpolate = FALSE
  /\ control_timestep = 1
  /\ model_timestep = 1
  /\ nsubsteps = 0
  /\ warned = FALSE
  /\ ctrl = ZeroA
  /\ itp = NoItp
  /\ call = NoCall
  /\ pc = "idle"
  /\ i = 0
  /\ nadv = 0
  /\ q_des = zeros(robot_dof)
  /\ qdot_target = zeros(robot_dof)
  /\ wlog = <<>>
  /\ ilog = <<>>

\* the if / elif / else of __init__ that chooses the controller class; the
\* result is the name attribute of the class instantiated
choose_controller_default_imp(tag) ==
  IF tag = "JNTVEL" THEN "JNTVEL" ELSE IF tag = "None" THEN "JNTNONE" ELSE "JNTIMP"

choose_controller(tag) ==
  IF tag = "JNTIMP" THEN "JNTIMP" ELSE IF tag = "JNTVEL" THEN "JNTVEL" ELSE "JNTNONE"

\* logging.warning of the else branch
warns(tag) == ~(tag = "JNTIMP") /\ ~(tag = "JNTVEL")

\* if self.nsubsteps == 0: raise ValueError(...)
init_outcome_unchecked(n) == "ready"

init_outcome(n) == IF n = 0 THEN "failed" ELSE "ready"

\* __init__: the controller is chosen by tag, then nsubsteps is computed and
\* a zero value raises ValueError
JntCtrlEnv_init(tag, interp, c, m) ==
  /\ UNCHANGED <<kinvars, namevars>>
  /\ env = "unbuilt"
  /\ jnt_controller' = tag
  /\ is_interpolate' = interp
  /\ control_timestep' = c
  /\ model_timestep' = m
  /\ name' = choose_controller(tag)
  /\ warned' = warns(tag)
  /\ itp' = new_interpolator(tag, interp)
  /\ nsubsteps' = compute_nsubsteps(c, m)
  /\ env' = init_outcome(compute_nsubsteps(c, m))
  /\ call' = [op |-> "init"]
  /\ UNCHANGED <<qpos, qvel, ctrl, pc, i, nadv, q_des, qdot_target, wlog, ilog>>

\* the selection with the two branches exchanged
select_targets_swapped(nm, action) ==
  IF nm = "JNTIMP" \/ nm = "JNTNONE"
    THEN <<zeros(robot_dof), action>>
    ELSE IF nm = "JNTVEL"
      THEN <<action, zeros(robot_dof)>>
      ELSE <<zeros(robot_dof), zeros(robot_dof)>>

\* the (q_target, qdot_target) pair inner_step selects from the controller name
select_targets(nm, action) ==
  IF nm = "JNTIMP" \/ nm = "JNTNONE"
    THEN <<action, zeros(robot_dof)>>
    ELSE IF nm = "JNTVEL"
      THEN <<zeros(robot_dof), action>>
      ELSE <<zeros(robot_dof), zeros(robot_dof)>>

\* for i in range(self.robot.jnt_num): <field>(ids[i]) = vals[i]
\* st is the field written and the log of the writes made so far
RECURSIVE write_each(_, _, _, _, _)
write_each(st, kind, ids, vals, from) ==
  IF from > jnt_num THEN st
  ELSE write_each([field |-> [st.field EXCEPT ![ids[from]] = vals[from]],
                   log |-> Append(st.log, <<kind, ids[from]>>)],
                  kind, ids, vals, from + 1)

\* inner_step without the JNTNONE branch: every controller goes through torque
inner_step_always_torque ==
  LET sel == select_targets(name, call.action)
      torque == compute_jnt_torque(itp, name, sel[1], sel[2],
                                   arm_qpos(qpos), arm_qvel(qvel))
      w == write_each([field |-> ctrl, log |-> <<>>],
                      "ctrl", actuator_index, torque, 1)
  IN  /\ q_des' = sel[1]
      /\ qdot_target' = sel[2]
      /\ ctrl' = w.field
      /\ wlog' = w.log
      /\ UNCHANGED qpos

\* inner_step(action), called by the base class's step before the engine advances
inner_step ==
  LET sel == select_targets(name, call.action)
      tgt == compute_jnt_pos(itp, sel[1])
      torque == compute_jnt_torque(itp, name, sel[1], sel[2],
                                   arm_qpos(qpos), arm_qvel(qvel))
  IN  /\ q_des' = sel[1]
      /\ qdot_target' = sel[2]
      /\ IF name = "JNTNONE"
           THEN LET w == write_each([field |-> qpos, log |-> <<>>],
                                    "qpos", joint_index, tgt, 1)
                IN  /\ qpos' = w.field
                    /\ wlog' = w.log
                    /\ UNCHANGED ctrl
           ELSE LET w == write_each([field |-> ctrl, log |-> <<>>],
                                    "ctrl", actuator_index, torque, 1)
                IN  /\ ctrl' = w.field
                    /\ wlog' = w.log
                    /\ UNCHANGED qpos

\* the command with the test made on 1 instead of 0
gripper_command_open_on_one(g) == IF g = 1 THEN GripOpen ELSE GripClose

\* gripper_ctrl(actuator_name, gripper_action)
gripper_command(g) == IF g = 0 THEN GripClose ELSE GripOpen

gripper_ctrl(a, g) ==
  /\ UNCHANGED <<kinvars, namevars>>
  /\ env = "ready" /\ pc = "idle"
  /\ ctrl' = [ctrl EXCEPT ![a] = gripper_command(g)]
  /\ call' = [op |-> "gripper_ctrl", actuator |-> a, action |-> g]
  /\ UNCHANGED <<env, jnt_controller, name, is_interpolate, control_timestep,
                 model_timestep, nsubsteps, warned, qpos, qvel, itp, pc, i, nadv,
                 q_des, qdot_target, wlog, ilog>>

\* the loop running once too often
loop_runs_inclusive(k) == k <= nsubsteps

\* for i in range(self.nsubsteps): whether the loop body runs for index k
loop_runs(k) == k < nsubsteps

\* step(action) advancing the interpolator whether or not is_interpolate is set
step_call_unconditional(action) ==
  /\ UNCHANGED <<kinvars, namevars>>
  /\ env = "ready" /\ pc = "idle"
  /\ call' = [op |-> "step", action |-> action]
  /\ i' = 0
  /\ nadv' = 0
  /\ itp' = step_interpolator(itp, action)
  /\ ilog' = <<[target |-> action, advances |-> nadv']>>
  /\ pc' = IF loop_runs(0) THEN "inner" ELSE "idle"
  /\ UNCHANGED <<env, jnt_controller, name, is_interpolate, control_timestep,
                 model_timestep, nsubsteps, warned, qpos, qvel, ctrl,
                 q_des, qdot_target, wlog>>

\* step(action), up to the head of its loop
step_call(action) ==
  /\ UNCHANGED <<kinvars, namevars>>
  /\ env = "ready" /\ pc = "idle"
  /\ call' = [op |-> "step", action |-> action]
  /\ i' = 0
  /\ nadv' = 0
  /\ itp' = IF is_interpolate THEN step_interpolator(itp, action) ELSE itp
  /\ ilog' = IF is_interpolate
               THEN <<[target |-> action, advances |-> nadv']>>
               ELSE <<>>
  /\ pc' = IF loop_runs(0) THEN "inner" ELSE "idle"
  /\ UNCHANGED <<env, jnt_controller, name, is_interpolate, control_timestep,
                 model_timestep, nsubsteps, warned, qpos, qvel, ctrl,
                 q_des, qdot_target, wlog>>

\* super().step(action), first half: the controller dispatch
step_inner ==
  /\ UNCHANGED <<kinvars, namevars>>
  /\ pc = "inner"
  /\ inner_step
  /\ pc' = "advance"
  /\ UNCHANGED <<env, jnt_controller, name, is_interpolate, control_timestep,
                 model_timestep, nsubsteps, warned, qvel, itp, call, i, nadv,
                 ilog>>

\* super().step(action), second half: the engine advances; then the loop head
step_advance ==
  /\ UNCHANGED <<kinvars, namevars>>
  /\ pc = "advance"
  /\ LET dyn == jnt_controller # "None"
         qv1 == mj_step_qvel(dyn, qvel, ctrl)
     IN  /\ qvel' = qv1
         /\ qpos' = mj_step_qpos(dyn, qpos, qv1)
  /\ nadv' = nadv + 1
  /\ i' = i + 1
  /\ pc' = IF loop_runs(i + 1) THEN "inner" ELSE "idle"
  /\ UNCHANGED <<env, jnt_controller, name, is_interpolate, control_timestep,
                 model_timestep, nsubsteps, warned, ctrl, itp, call,
                 q_des, qdot_target, wlog, ilog>>

\* the base class's reset: the engine's data go back to the initial pose
base_reset_qpos == init_qpos
base_reset_qvel == ZeroJ

\* reset() reading the joint state before the base reset has run
reset_stale ==
  /\ UNCHANGED <<kinvars, namevars>>
  /\ env = "ready" /\ pc = "idle"
  /\ qpos' = base_reset_qpos
  /\ qvel' = base_reset_qvel
  /\ ctrl' = ZeroA
  /\ itp' = IF is_interpolate
              THEN reset_interpolator(itp, arm_qpos(qpos), arm_qvel(qvel))
              ELSE itp
  /\ call' = [op |-> "reset"]
  /\ UNCHANGED <<env, jnt_controller, name, is_interpolate, control_timestep,
                 model_timestep, nsubsteps, warned, pc, i, nadv,
                 q_des, qdot_target, wlog, ilog>>

\* reset(): the base reset, then the interpolator is resynchronized
reset ==
  /\ UNCHANGED <<kinvars, namevars>>
  /\ env = "ready" /\ pc = "idle"
  /\ qpos' = base_reset_qpos
  /\ qvel' = base_reset_qvel
  /\ ctrl' = ZeroA
  /\ itp' = IF is_interpolate
              THEN reset_interpolator(itp, arm_qpos(qpos'), arm_qvel(qvel'))
              ELSE itp
  /\ call' = [op |-> "reset"]
  /\ UNCHANGED <<env, jnt_controller, name, is_interpolate, control_timestep,
                 model_timestep, nsubsteps, warned, pc, i, nadv,
                 q_des, qdot_target, wlog, ilog>>

EnvNext ==
  \/ \E tag \in Tags, interp \in BOOLEAN, c \in 1..MaxCtl, m \in ModelTimesteps :
       JntCtrlEnv_init(tag, interp, c, m)
  \/ \E action \in Actions : step_call(action)
  \/ step_inner
  \/ step_advance
  \/ reset
  \/ \E g \in GripperActions : gripper_ctrl(GripperActuator, g)

\* ------------------------------------------------ BaseRobot: kinematics
\* h = 1e-2, in the time unit of the velocities
h == 1
\* the bodies of the arm: body b hangs on joint joint_index[b]
Bodies == 1..jnt_num
end_body == jnt_num

RECURSIVE chain(_, _)
chain(qp, b) == IF b = 0 THEN 0 ELSE chain(qp, b - 1) + qp[joint_index[b]]

\* mujoco.mj_kinematics: the body frames of a serial chain, from qpos
mj_kinematics(qp) == [b \in Bodies |-> chain(qp, b)]

RECURSIVE subtree(_, _)
subtree(xp, b) == IF b > end_body THEN 0 ELSE xp[b] + subtree(xp, b + 1)

\* mujoco.mj_comPos: the subtree quantities, from the body frames
mj_comPos(xp) == [b \in Bodies |-> subtree(xp, b)]

\* mujoco.mj_integratePos(model, qpos, qvel, h)
mj_integratePos(qp, qv, dt) == [j \in JointIds |-> qp[j] + dt * qv[j]]

\* get_full_jac: mj_jacBody at the end body reads the frames and the subtree
\* quantities cached in robot_data, then the arm's columns are taken
get_full_jac(xp, cd) == [k \in 1..jnt_num |-> xp[end_body] - cd[k]]

KinInit ==
  /\ xpos = mj_kinematics(qpos)
  /\ cdof = mj_comPos(xpos)
  /\ kpc = "idle"
  /\ J = zeros(jnt_num)
  /\ original_qpos = qpos
  /\ Jh = zeros(jnt_num)
  /\ Jdot = zeros(jnt_num)
  /\ entry = [qpos |-> qpos, qvel |-> qvel]

\* get_jac_dot, lines 237-241: J, the snapshot, the perturbation of qpos
jac_dot_begin ==
  /\ UNCHANGED <<ctlvars, namevars>>
  /\ kpc = "idle"
  /\ call' = [op |-> "get_jac_dot"]
  /\ entry' = [qpos |-> qpos, qvel |-> qvel]
  /\ J' = get_full_jac(xpos, cdof)
  /\ original_qpos' = qpos
  /\ qpos' = mj_integratePos(qpos, qvel, h)
  /\ kpc' = "perturbed"
  /\ UNCHANGED <<qvel, xpos, cdof, Jh, Jdot>>

\* get_jac_dot, lines 242-245: mj_comPos, then mj_kinematics, then Jh
jac_dot_rederive ==
  /\ UNCHANGED <<ctlvars, namevars>>
  /\ kpc = "perturbed"
  /\ cdof' = mj_comPos(xpos)
  /\ xpos' = mj_kinematics(qpos)
  /\ Jh' = get_full_jac(xpos', cdof')
  /\ kpc' = "rederived"
  /\ UNCHANGED <<qpos, qvel, J, original_qpos, Jdot, entry, call>>

\* get_jac_dot, lines 246-249, with the snapshot never written back
jac_dot_finish_no_restore ==
  /\ UNCHANGED <<ctlvars, namevars>>
  /\ kpc = "rederived"
  /\ Jdot' = [k \in 1..jnt_num |-> (Jh[k] - J[k]) \div h]
  /\ kpc' = "idle"
  /\ UNCHANGED <<qpos, qvel, xpos, cdof, J, original_qpos, Jh, entry, call>>

\* get_jac_dot, lines 246-249: qpos is set back to the snapshot, Jdot returned
jac_dot_finish ==
  /\ UNCHANGED <<ctlvars, namevars>>
  /\ kpc = "rederived"
  /\ qpos' = original_qpos
  /\ Jdot' = [k \in 1..jnt_num |-> (Jh[k] - J[k]) \div h]
  /\ kpc' = "idle"
  /\ UNCHANGED <<qvel, xpos, cdof, J, original_qpos, Jh, entry, call>>

\* mujoco.mj_forward, which the environment runs on robot_data between calls
mj_forward ==
  /\ UNCHANGED <<ctlvars, namevars>>
  /\ kpc = "idle"
  /\ call.op # "mj_forward"
  /\ xpos' = mj_kinematics(qpos)
  /\ cdof' = mj_comPos(xpos')
  /\ call' = [op |-> "mj_forward"]
  /\ UNCHANGED <<qpos, qvel, kpc, J, original_qpos, Jh, Jdot, entry>>

KinNext ==
  \/ jac_dot_begin
  \/ jac_dot_rederive
  \/ jac_dot_finish
  \/ mj_forward

\* --------------------------------------- BaseRobot: the arm_joint_names setter
MaxNames == 2      \* a list of joint names has at most MaxNames entries
agents == <<"arm0", "arm1">>
AgentSet == {agents[k] : k \in 1..Len(agents)}
JointNames == {"joint0", "joint1", "nojoint"}
\* robot_model.jnt_range, by joint id: <<lower, upper>>
jnt_range == [j \in {0, 1} |-> IF j = 0 THEN <<-3, 3>> ELSE <<-2, 2>>]
njnt == 2

\* mujoco.mj_name2id(model, mjOBJ_JOINT, name): the id, or -1 for no such joint
mj_name2id(nm) == IF nm = "joint0" THEN 0 ELSE IF nm = "joint1" THEN 1 ELSE -1

\* jnt_range[index, col]: numpy counts a negative index from the end
jnt_range_col(index, col) ==
  [k \in 1..Len(index) |->
     jnt_range[IF index[k] < 0 THEN index[k] + njnt ELSE index[k]][col]]

NameLists == UNION {[1..n -> JointNames] : n \in 0..MaxNames}
NameDicts == UNION {[S -> NameLists] : S \in SUBSET AgentSet}
EmptyDict == [a \in {} |-> <<>>]

NamesInit ==
  /\ arm_joint_names = EmptyDict
  /\ arm_joint_indexes = EmptyDict
  /\ mani_joint_bounds = EmptyDict
  /\ raised = FALSE

\* the loop of the setter: the index lists of the agents named are replaced
indexes_after(old, names) ==
  [a \in DOMAIN old \cup DOMAIN names |->
     IF a \in DOMAIN names
       THEN [k \in 1..Len(names[a]) |-> mj_name2id(names[a][k])]
       ELSE old[a]]

\* @arm_joint_names.setter
set_arm_joint_names(names) ==
  LET idx == indexes_after(arm_joint_indexes, names)
  IN  /\ UNCHANGED <<ctlvars, qpos, qvel, kinvars>>
      /\ arm_joint_names' = names
      /\ arm_joint_indexes' = idx
      /\ IF AgentSet \subseteq DOMAIN idx
           THEN /\ mani_joint_bounds' =
                     [a \in AgentSet |->
                        <<jnt_range_col(idx[a], 1), jnt_range_col(idx[a], 2)>>]
                /\ raised' = FALSE
           ELSE /\ raised' = TRUE
                /\ UNCHANGED mani_joint_bounds
      /\ call' = [op |-> "set_arm_joint_names"]

NamesNext == \E names \in NameDicts : set_arm_joint_names(names)

\* ------------------------------------------------------- specifications
vars == <<envvars, kinvars, namevars>>

Init == EnvInit /\ PhysInit /\ KinInit /\ NamesInit
Next == EnvNext
Spec == Init /\ [][Next]_vars

\* get_jac_dot called at any joint position and velocity
InitKin ==
  /\ EnvInit
  /\ qpos \in [JointIds -> Vals]
  /\ qvel \in [JointIds -> Vals]
  /\ KinInit
  /\ NamesInit
SpecKin == InitKin /\ [][KinNext]_vars

\* the rig's joint names assigned and reassigned
SpecNames == Init /\ [][NamesNext]_vars

\* ------------------------------------------------------------- claims
StepReturned == call.op = "step" /\ pc = "idle"

\* C1: when control_timestep is an exact multiple of model_timestep, nsubsteps
\* is their quotient; a step never makes more than nsubsteps physics advances,
\* and when it returns it has made exactly nsubsteps of them, whatever the
\* controller and whether or not interpolation is enabled.
C1_ExactSubsteps ==
  /\ (env = "ready" /\ control_timestep % model_timestep = 0)
       => nsubsteps * model_timestep = control_timestep
  /\ call.op = "step" => nadv <= nsubsteps
  /\ StepReturned => nadv = nsubsteps

C1_Witness ==
  /\ StepReturned
  /\ control_timestep = 4 /\ model_timestep = 2 /\ nadv = 2
  /\ is_interpolate /\ name = "JNTVEL"

\* C2: construction fails whenever control_timestep < model_timestep; an
\* environment that was constructed has nsubsteps >= 1, and no step is in
\* progress or has been made with nsubsteps = 0.
C2_NoZeroSubsteps ==
  /\ (env # "unbuilt" /\ control_timestep < model_timestep) => env = "failed"
  /\ env = "ready" => nsubsteps >= 1
  /\ (call.op = "step" \/ pc # "idle") => nsubsteps >= 1

C2_Witness ==
  /\ env = "failed"
  /\ control_timestep < model_timestep
  /\ nsubsteps = 0

\* C4: with interpolation enabled, right after reset the interpolator's start
\* position and velocity are the arm's joint position and velocity as the
\* physics state holds them after the base reset.
C4_ResetResync ==
  (call.op = "reset" /\ is_interpolate /\ itp.present)
    => /\ itp.start_q = arm_qpos(qpos)
       /\ itp.start_v = arm_qvel(qvel)

C4_Witness ==
  /\ call.op = "reset" /\ is_interpolate /\ itp.present
  /\ nadv >= 1
  /\ itp.start_q = arm_qpos(init_qpos)

\* C5 as stated: an unrecognized controller tag makes construction fail.
C5_UnknownTagRaises ==
  (env # "unbuilt" /\ jnt_controller = "BOGUS") => env = "failed"

\* C5 amended: an unrecognized controller tag is not an error of its own: the
\* constructor logs a warning and builds the passthrough controller, as it does
\* for None; construction then fails only if nsubsteps is 0.
C5_UnknownTagFallsBack ==
  (env # "unbuilt" /\ jnt_controller = "BOGUS")
    => /\ name = "JNTNONE"
       /\ warned
       /\ (env = "failed" <=> nsubsteps = 0)

C5_Witness ==
  /\ jnt_controller = "BOGUS" /\ env = "ready"
  /\ name = "JNTNONE" /\ warned
  /\ StepReturned

\* C6: every inner step selects (desired position, desired velocity) =
\* (action, zeros) under JNTIMP and JNTNONE and (zeros, action) under JNTVEL.
C6_Dispatch ==
  pc = "advance"
    => /\ name \in {"JNTIMP", "JNTNONE"}
            => (q_des = call.action /\ qdot_target = zeros(robot_dof))
       /\ name = "JNTVEL"
            => (q_des = zeros(robot_dof) /\ qdot_target = call.action)

C6_Witness ==
  /\ pc = "advance" /\ name = "JNTVEL"
  /\ call.action # zeros(robot_dof)
  /\ qdot_target = call.action

\* C8: gripper_ctrl leaves -40 in the named actuator's command when the action
\* is 0 and +40 for every other action.
C8_GripperCommand ==
  call.op = "gripper_ctrl"
    => /\ call.action = 0 => ctrl[call.actuator] = -40
       /\ call.action # 0 => ctrl[call.actuator] = 40

C8_Witness ==
  /\ call.op = "gripper_ctrl" /\ call.action = 2
  /\ ctrl[GripperActuator] = 40

\* C10: an inner step under JNTNONE writes the computed target into qpos of
\* the arm's joints, one joint at a time in joint-index order, and leaves every
\* actuator command as it was; under JNTIMP and JNTVEL it writes one torque per
\* arm actuator and leaves qpos as it was.
InnerStepTaken == pc = "inner" /\ pc' = "advance"
WritesInOrder(kind, ids) ==
  /\ Len(wlog') = jnt_num
  /\ \A k \in 1..jnt_num : wlog'[k] = <<kind, ids[k]>>

C10_PassthroughWritesQpos ==
  [][InnerStepTaken =>
       IF name = "JNTNONE"
         THEN /\ ctrl' = ctrl
              /\ WritesInOrder("qpos", joint_index)
              /\ \A k \in 1..jnt_num :
                   qpos'[joint_index[k]] = compute_jnt_pos(itp, call.action)[k]
         ELSE /\ qpos' = qpos
              /\ WritesInOrder("ctrl", actuator_index)
              /\ ctrl'[GripperActuator] = ctrl[GripperActuator]]_vars

C10_Witness ==
  /\ pc = "advance" /\ name = "JNTNONE"
  /\ wlog = <<(<<"qpos", 0>>), (<<"qpos", 1>>)>>
  /\ arm_qpos(qpos) = call.action
  /\ call.action = <<0, 1>>
  /\ ctrl[GripperActuator] = 40

\* C3: get_jac_dot never changes qvel, and qpos is the same after the call as
\* it was before it.
C3_StateRestored ==
  /\ call.op = "get_jac_dot" => qvel = entry.qvel
  /\ (call.op = "get_jac_dot" /\ kpc = "idle") => qpos = entry.qpos

C3_Witness ==
  /\ call.op = "get_jac_dot" /\ kpc = "idle"
  /\ \A j \in JointIds : qvel[j] # 0
  /\ qpos = entry.qpos

\* C9: when get_jac_dot has returned, the cached body frames and subtree
\* quantities are those of the restored qpos.
C9_NoStaleFrames ==
  (call.op = "get_jac_dot" /\ kpc = "idle")
    => /\ xpos = mj_kinematics(qpos)
       /\ cdof = mj_comPos(mj_kinematics(qpos))

\* C7: after any assignment to arm_joint_names that completed, every agent
\* has a name list and an index list of the same length, index k being the id
\* of name k, and the bounds of every agent are those of the joints it is
\* assigned now.
C7_NamesIndexesBounds ==
  (call.op = "set_arm_joint_names" /\ ~raised)
    => \A a \in AgentSet :
         /\ a \in DOMAIN arm_joint_names
         /\ a \in DOMAIN arm_joint_indexes
         /\ Len(arm_joint_indexes[a]) = Len(arm_joint_names[a])
         /\ \A k \in 1..Len(arm_joint_names[a]) :
              arm_joint_indexes[a][k] = mj_name2id(arm_joint_names[a][k])
         /\ a \in DOMAIN mani_joint_bounds
         /\ mani_joint_bounds[a] =
              <<jnt_range_col(arm_joint_indexes[a], 1),
                jnt_range_col(arm_joint_indexes[a], 2)>>

\* C11: throughout a step and after it, the step has advanced the interpolator
\* exactly once if interpolation is enabled, with the step's action as the
\* target and before any physics sub-step was made, and not at all if it is
\* disabled; an interpolator that was advanced holds the action as its target.
C11_InterpolatorOncePerStep ==
  call.op = "step"
    => /\ is_interpolate
            => /\ ilog = <<[target |-> call.action, advances |-> 0]>>
               /\ itp.present => itp.target = call.action
       /\ ~is_interpolate => ilog = <<>>

C11_Witness ==
  /\ StepReturned /\ is_interpolate /\ itp.present
  /\ nadv = 3
  /\ Len(ilog) = 1
  /\ call.action # zeros(robot_dof)
  /\ itp.target = call.action
====
